---- MODULE Spec2Model ----
(***************************************************************************)
(* Model of the engineering orchestrator: the supervisor routing step      *)
(* (graph.py), the tool-calling loop of the stages (agents/*.py), the      *)
(* retry wrapper around the backend (llm.py), the file capabilities        *)
(* (tools/file_tools.py) and the interrupt/resume controller (graph.py,    *)
(* main.py).                                                               *)
(*                                                                         *)
(* Texts are strings; lower(), upper(), `in`, startswith and json.loads    *)
(* work on their characters.  json.loads is modelled for flat JSON: an     *)
(* object or array of strings and literals, a string, a literal.           *)
(***************************************************************************)
EXTENDS Integers, Sequences, FiniteSets, TLC

VARIABLES
  st,       \* SharedState: the values of the session's latest checkpoint
  ctl,      \* position of the controller (graph.stream / main loop)
  pending,  \* state.next: the stage about to run or running, "" when none
  frame,    \* locals of the stage function that is executing
  store,    \* artifact store: the files under the output directory
  log,      \* history counters: supervisor calls, stage runs, capability calls
  rt,       \* locals of one invoke_with_retry call and the trace of its effects
  saver,    \* the MemorySaver: the checkpoints written for the session's thread
  state     \* main()'s `state`: what the last _run_until_interrupt returned

vars == <<st, ctl, pending, frame, store, log, rt, saver, state>>

\* ------------------------------------------------------------------ bounds
MaxCalls == 1        \* tool-call requests the backend makes in one session

\* a stage run checked on its own gets a larger budget of requests
StageCalls == MaxCalls + 2

\* --------------------------------------------------------- program constants
\* the MAX_ITERATIONS of the environment; 12 when it is not set
MAX_ITERATIONS == 3

MAX_RETRIES == 7

INITIAL_BACKOFF == 2

AGENT_NODES == <<"requirements", "system_design", "coding", "testing", "monitoring">>

VALID_ROUTES == AGENT_NODES \o <<"FINISH">>

\* a graph compiled without an interrupt set
InterruptBeforeNone == {}

InterruptBefore == {"coding"}

Range(s) == {s[i] : i \in DOMAIN s}

Min(S) == CHOOSE x \in S : \A y \in S : x <= y

\* ------------------------------------------------------------------- text
UpperLetters == "ABCDEFGHIJKLMNOPQRSTUVWXYZ"

LowerLetters == "abcdefghijklmnopqrstuvwxyz"

Char(s, i) == SubSeq(s, i, i)

\* the 1-based position of character c in s, 0 when it does not occur
Find(s, c) ==
  LET hits == {i \in 1..Len(s) : Char(s, i) = c}
  IN IF hits = {} THEN 0 ELSE Min(hits)

\* str.lower()
RECURSIVE Lower(_)
Lower(s) ==
  IF s = "" THEN ""
  ELSE IF Len(s) = 1
    THEN LET i == Find(UpperLetters, s) IN IF i = 0 THEN s ELSE Char(LowerLetters, i)
  ELSE Lower(SubSeq(s, 1, Len(s) \div 2)) \o Lower(SubSeq(s, Len(s) \div 2 + 1, Len(s)))

\* the upper-case form of one character
UpperChar(c) ==
  IF \E i \in 1..Len(LowerLetters) : Char(LowerLetters, i) = c
    THEN Char(UpperLetters, CHOOSE i \in 1..Len(LowerLetters) : Char(LowerLetters, i) = c)
    ELSE c

\* the upper-case form of the characters lo..hi of s
RECURSIVE UpperRange(_, _, _)
UpperRange(s, lo, hi) ==
  IF lo > hi THEN ""
  ELSE IF lo = hi THEN UpperChar(Char(s, lo))
  ELSE UpperRange(s, lo, (lo + hi) \div 2) \o UpperRange(s, (lo + hi) \div 2 + 1, hi)

\* str.upper()
Upper(s) == UpperRange(s, 1, Len(s))

\* `needle in text`
Contains(text, needle) ==
  \E i \in 1..(Len(text) - Len(needle) + 1) : SubSeq(text, i, i + Len(needle) - 1) = needle

\* text.startswith(prefix)
StartsWith(text, prefix) ==
  Len(text) >= Len(prefix) /\ SubSeq(text, 1, Len(prefix)) = prefix

\* sep.join(parts)
RECURSIVE JoinWith(_, _)
JoinWith(sep, parts) ==
  IF parts = <<>> THEN ""
  ELSE IF Len(parts) = 1 THEN parts[1]
  ELSE parts[1] \o sep \o JoinWith(sep, Tail(parts))

\* d[k] = v on a dict
Put(d, k, v) == [x \in DOMAIN d \cup {k} |-> IF x = k THEN v ELSE d[x]]

\* dict.get(key, default)
Get(d, key, default) == IF key \in DOMAIN d THEN d[key] ELSE default

\* --------------------------------------------------------------- json.loads
Quote == "\""

RECURSIVE SkipWs(_)
SkipWs(s) == IF s # "" /\ Head(s) \in {" ", "\n"} THEN SkipWs(Tail(s)) ELSE s

\* the longest prefix of s made of the characters of a JSON literal
RECURSIVE LiteralPrefix(_)
LiteralPrefix(s) ==
  IF s # "" /\ (Find(LowerLetters, Head(s)) > 0 \/ Find("0123456789", Head(s)) > 0)
    THEN Head(s) \o LiteralPrefix(Tail(s))
    ELSE ""

IsDigits(s) == s # "" /\ \A i \in 1..Len(s) : Find("0123456789", Char(s, i)) > 0

NoParse(s) == [ok |-> FALSE, str |-> FALSE, text |-> "", rest |-> s]

\* a JSON string (without escapes) or literal at the start of s
ParseValue(s) ==
  IF s # "" /\ Head(s) = Quote
    THEN LET n == Find(Tail(s), Quote)
         IN IF n = 0 THEN NoParse(s)
            ELSE [ok |-> TRUE, str |-> TRUE, text |-> SubSeq(Tail(s), 1, n - 1),
                  rest |-> SubSeq(Tail(s), n + 1, Len(Tail(s)))]
    ELSE LET lit == LiteralPrefix(s)
         IN IF IsDigits(lit) \/ lit \in {"null", "true", "false"}
              THEN [ok |-> TRUE, str |-> FALSE, text |-> lit,
                    rest |-> SubSeq(s, Len(lit) + 1, Len(s))]
              ELSE NoParse(s)

NoMembers(s) == [ok |-> FALSE, obj |-> <<>>, rest |-> s]

\* the members of an object from its first key on, up to and with the "}"
RECURSIVE ParseMembers(_, _)
ParseMembers(s, obj) ==
  LET k == ParseValue(SkipWs(s))
      colon == SkipWs(k.rest)
  IN IF ~k.ok \/ ~k.str \/ colon = "" \/ Head(colon) # ":" THEN NoMembers(s)
     ELSE LET v == ParseValue(SkipWs(Tail(colon)))
              r == SkipWs(v.rest)
              obj2 == Put(obj, k.text, [str |-> v.str, text |-> v.text])
          IN IF ~v.ok \/ r = "" THEN NoMembers(s)
             ELSE IF Head(r) = "}" THEN [ok |-> TRUE, obj |-> obj2, rest |-> Tail(r)]
             ELSE IF Head(r) = "," THEN ParseMembers(Tail(r), obj2)
             ELSE NoMembers(s)

\* the elements of an array from its first element on, up to and with the "]"
RECURSIVE ParseElements(_)
ParseElements(s) ==
  LET v == ParseValue(SkipWs(s))
      r == SkipWs(v.rest)
  IN IF ~v.ok \/ r = "" THEN NoMembers(s)
     ELSE IF Head(r) = "]" THEN [ok |-> TRUE, obj |-> <<>>, rest |-> Tail(r)]
     ELSE IF Head(r) = "," THEN ParseElements(Tail(r))
     ELSE NoMembers(s)

\* json.loads(content): kind is "dict", "other" (a JSON value that is no dict)
\* or "error" (JSONDecodeError); obj is the dict
JsonLoads(content) ==
  LET s == SkipWs(content)
      open == IF s = "" THEN "" ELSE Head(s)
      body == IF s = "" THEN "" ELSE SkipWs(Tail(s))
      parsed ==
        IF open = "{"
          THEN IF body # "" /\ Head(body) = "}"
                 THEN [ok |-> TRUE, obj |-> <<>>, rest |-> Tail(body)]
                 ELSE ParseMembers(body, <<>>)
        ELSE IF open = "["
          THEN IF body # "" /\ Head(body) = "]"
                 THEN [ok |-> TRUE, obj |-> <<>>, rest |-> Tail(body)]
                 ELSE ParseElements(body)
        ELSE LET v == ParseValue(s) IN [ok |-> v.ok, obj |-> <<>>, rest |-> v.rest]
  IN IF ~parsed.ok \/ SkipWs(parsed.rest) # "" THEN [kind |-> "error", obj |-> <<>>]
     ELSE IF open = "{" THEN [kind |-> "dict", obj |-> parsed.obj]
     ELSE [kind |-> "other", obj |-> <<>>]

\* ------------------------------------------------------------ SharedState
\* a message of the history; tool_call_id is 0 when the message has none
Message(type, name, content, tool_calls, tool_call_id) ==
  [type |-> type, name |-> name, content |-> content,
   tool_calls |-> tool_calls, tool_call_id |-> tool_call_id]

HumanMessage(content) == Message("human", "", content, <<>>, 0)

AIMessage(content, tool_calls) == Message("ai", "", content, tool_calls, 0)

ToolMessage(content, id) == Message("tool", "", content, <<>>, id)

\* the initial_state of main(): a new project, or an existing one with its files
InitialState(code_files) ==
  [messages |-> <<HumanMessage("build it")>>,
   requirements |-> "",
   system_design |-> "",
   code_files |-> code_files,
   test_results |-> "",
   tests_passing |-> FALSE,
   monitoring_config |-> "",
   original_prompt |-> "build it",
   current_phase |-> "start",
   iteration_count |-> 0]

\* every key replaced by the update, the messages too
MergeReplaces(s, update) ==
  [k \in DOMAIN s |-> IF k \notin DOMAIN update THEN s[k] ELSE update[k]]

\* the reducers of OrchestratorState: messages are appended, other keys replaced
Merge(s, update) ==
  [k \in DOMAIN s |->
     IF k \notin DOMAIN update THEN s[k]
     ELSE IF k = "messages" THEN s[k] \o update[k]
     ELSE update[k]]

\* -------------------------------------------------------------- supervisor
has_requirements(s) == s.requirements # ""

has_design(s) == s.system_design # ""

has_code(s) == DOMAIN s.code_files # {}

has_monitoring(s) == s.monitoring_config # ""

\* all_done with the monitoring milestone forgotten
all_done_without_monitoring(s) ==
  /\ has_requirements(s) /\ has_design(s) /\ has_code(s)
  /\ s.tests_passing

all_done(s) ==
  /\ has_requirements(s) /\ has_design(s) /\ has_code(s)
  /\ s.tests_passing /\ has_monitoring(s)

\* the checklist walked with the design before the requirements
missing_design_first(s) ==
  (IF ~has_design(s) THEN <<"system_design">> ELSE <<>>)
  \o (IF ~has_requirements(s) THEN <<"requirements">> ELSE <<>>)
  \o (IF ~has_code(s) THEN <<"coding">> ELSE <<>>)
  \o (IF ~s.tests_passing THEN <<"testing (tests not passing)">> ELSE <<>>)
  \o (IF ~has_monitoring(s) THEN <<"monitoring">> ELSE <<>>)

\* the list `missing`, in the order the code appends to it
missing(s) ==
  (IF ~has_requirements(s) THEN <<"requirements">> ELSE <<>>)
  \o (IF ~has_design(s) THEN <<"system_design">> ELSE <<>>)
  \o (IF ~has_code(s) THEN <<"coding">> ELSE <<>>)
  \o (IF ~s.tests_passing THEN <<"testing (tests not passing)">> ELSE <<>>)
  \o (IF ~has_monitoring(s) THEN <<"monitoring">> ELSE <<>>)

\* text.split(" ")[0]
FirstWord(text) ==
  LET n == Find(text, " ") IN IF n = 0 THEN text ELSE SubSeq(text, 1, n - 1)

\* the routes whose lower-case name occurs in the lower-cased text
RoutesIn(content) ==
  {i \in DOMAIN VALID_ROUTES : Contains(Lower(content), Lower(VALID_ROUTES[i]))}

\* the scan taking the name that comes first in the text
ParseDecisionFirstInText(content) ==
  LET j == JsonLoads(content)
      at(i) == Min({p \in 1..(Len(content) - Len(VALID_ROUTES[i]) + 1) :
                      SubSeq(Lower(content), p, p + Len(VALID_ROUTES[i]) - 1)
                        = Lower(VALID_ROUTES[i])})
  IN IF j.kind = "dict"
       THEN [next_agent |-> IF "next" \in DOMAIN j.obj THEN j.obj["next"].text ELSE "FINISH",
             reason |-> IF "reason" \in DOMAIN j.obj THEN j.obj["reason"].text ELSE ""]
     ELSE IF RoutesIn(content) # {}
       THEN [next_agent |->
               VALID_ROUTES[CHOOSE i \in RoutesIn(content) :
                              \A k \in RoutesIn(content) : at(i) <= at(k)],
             reason |-> content]
     ELSE [next_agent |-> "FINISH",
           reason |-> "Could not parse routing decision; finishing."]

\* the try/except that reads the backend reply
ParseDecision(content) ==
  LET j == JsonLoads(content)
  IN IF j.kind = "dict"
       THEN [next_agent |-> IF "next" \in DOMAIN j.obj THEN j.obj["next"].text ELSE "FINISH",
             reason |-> IF "reason" \in DOMAIN j.obj THEN j.obj["reason"].text ELSE ""]
     ELSE IF RoutesIn(content) # {}
       THEN [next_agent |-> VALID_ROUTES[Min(RoutesIn(content))], reason |-> content]
     ELSE [next_agent |-> "FINISH",
           reason |-> "Could not parse routing decision; finishing."]

\* an unregistered name let through
CheckRouteKeeps(d) == d

\* `if next_agent not in VALID_ROUTES`; the f-string reads next_agent after it was reset
CheckRoute(d) ==
  IF d.next_agent \notin Range(VALID_ROUTES)
    THEN [next_agent |-> "FINISH", reason |-> "Unknown route 'FINISH'; finishing."]
    ELSE d

\* the override stopping one call early
BelowCapEarly(iteration_count) == iteration_count < MAX_ITERATIONS - 1

\* `iteration_count < MAX_ITERATIONS`
BelowCap(iteration_count) == iteration_count < MAX_ITERATIONS

\* no cap at all
AtCapNever(iteration_count) == FALSE

\* the cap compared with > for >=
AtCapLate(iteration_count) == iteration_count > MAX_ITERATIONS

\* `iteration_count >= MAX_ITERATIONS`
AtCap(iteration_count) == iteration_count >= MAX_ITERATIONS

\* the override sending an unmet testing milestone to the testing stage
OverrideToFirstUnmet(s, d) ==
  IF d.next_agent = "FINISH" /\ BelowCap(s.iteration_count) /\ ~all_done(s)
    THEN LET next_agent == FirstWord(missing(s)[1])
         IN [next_agent |-> next_agent,
             reason |-> "Cannot finish yet - incomplete phases: "
                        \o JoinWith(", ", missing(s))
                        \o ". Routing to " \o next_agent \o "."]
    ELSE d

\* a FINISH below the cap with an incomplete checklist is routed to a stage
Override(s, d) ==
  IF d.next_agent = "FINISH" /\ BelowCap(s.iteration_count) /\ ~all_done(s)
    THEN LET first == FirstWord(missing(s)[1])
             next_agent == IF first = "testing" THEN "coding" ELSE first
         IN [next_agent |-> next_agent,
             reason |-> "Cannot finish yet - incomplete phases: "
                        \o JoinWith(", ", missing(s))
                        \o ". Routing to " \o next_agent \o "."]
    ELSE d

\* the cap left unenforced
ForceFinishSkipped(s, d) == d

\* at the cap a decision for a stage becomes FINISH
ForceFinish(s, d) ==
  IF AtCap(s.iteration_count) /\ d.next_agent # "FINISH"
    THEN [next_agent |-> "FINISH",
          reason |-> "Max iterations (" \o ToString(MAX_ITERATIONS)
                     \o ") reached; forcing FINISH."]
    ELSE d

\* the decision of supervisor(state) when the reply was read as parsed
Decide(s, parsed) == ForceFinish(s, Override(s, CheckRoute(parsed)))

\* the counter advanced only when a stage is named
SupervisorUpdateCountsStages(s, d) ==
  [messages |-> <<Message("ai", "supervisor",
                          "[Supervisor] Routing to **" \o d.next_agent \o "**: " \o d.reason,
                          <<>>, 0)>>,
   current_phase |-> IF d.next_agent # "FINISH" THEN d.next_agent ELSE "finished",
   iteration_count |-> IF d.next_agent # "FINISH" THEN s.iteration_count + 1
                       ELSE s.iteration_count]

\* the phase set to the route's name, without the terminal marker
SupervisorUpdateRawPhase(s, d) ==
  [messages |-> <<Message("ai", "supervisor",
                          "[Supervisor] Routing to **" \o d.next_agent \o "**: " \o d.reason,
                          <<>>, 0)>>,
   current_phase |-> d.next_agent,
   iteration_count |-> s.iteration_count + 1]

\* the dict supervisor(state) returns
SupervisorUpdate(s, d) ==
  [messages |-> <<Message("ai", "supervisor",
                          "[Supervisor] Routing to **" \o d.next_agent \o "**: " \o d.reason,
                          <<>>, 0)>>,
   current_phase |-> IF d.next_agent # "FINISH" THEN d.next_agent ELSE "finished",
   iteration_count |-> s.iteration_count + 1]

\* the phase returned without the look at the registry
route_after_supervisor_unchecked(s) == s.current_phase

route_after_supervisor(s) ==
  IF s.current_phase \in Range(AGENT_NODES) THEN s.current_phase ELSE "FINISH"

\* ------------------------------------------------------------ capabilities
\* str(Path(_get_output_dir()).resolve())
OutputDir == "/work/output"

\* the components of a path text
RECURSIVE SplitPath(_, _)
SplitPath(s, part) ==
  IF s = "" THEN (IF part = "" THEN <<>> ELSE <<part>>)
  ELSE IF Head(s) = "/"
    THEN (IF part = "" THEN <<>> ELSE <<part>>) \o SplitPath(Tail(s), "")
  ELSE SplitPath(Tail(s), part \o Head(s))

\* Path.resolve() on components: "." and ".." are folded away
RECURSIVE Fold(_, _)
Fold(acc, rest) ==
  IF rest = <<>> THEN acc
  ELSE IF Head(rest) = ".."
    THEN Fold(IF acc = <<>> THEN acc ELSE SubSeq(acc, 1, Len(acc) - 1), Tail(rest))
  ELSE IF Head(rest) = "." THEN Fold(acc, Tail(rest))
  ELSE Fold(Append(acc, Head(rest)), Tail(rest))

\* str((base / filename).resolve()); an absolute filename replaces the base
Resolved(filename) ==
  LET from == IF StartsWith(filename, "/") THEN <<>> ELSE SplitPath(OutputDir, "")
  IN "/" \o JoinWith("/", Fold(from, SplitPath(filename, "")))

\* _resolve_path raises ValueError for this filename
Traversal(filename) == ~StartsWith(Resolved(filename), OutputDir)

Outcome(raised, result, files) == [raised |-> raised, result |-> result, store |-> files]

write_file(args, files) ==
  IF Traversal(args.filename)
    THEN {Outcome(TRUE, "Path traversal detected: " \o args.filename, files)}
    ELSE {Outcome(FALSE,
                  "Written " \o ToString(Len(args.content)) \o " bytes to "
                    \o Resolved(args.filename),
                  Put(files, Resolved(args.filename), args.content))}

read_file(args, files) ==
  IF Traversal(args.filename)
    THEN {Outcome(TRUE, "Path traversal detected: " \o args.filename, files)}
    ELSE IF Resolved(args.filename) \notin DOMAIN files
      THEN {Outcome(FALSE, "File not found: " \o args.filename, files)}
    ELSE {Outcome(FALSE, files[Resolved(args.filename)], files)}

\* what pytest prints is the environment's choice
run_tests(args, files) == {Outcome(FALSE, out, files) : out \in {"1 passed", "FAILED t.py"}}

CODING_TOOLS == {"write_file", "read_file", "list_files"}

TESTING_TOOLS == {"write_file", "read_file", "list_files", "run_tests", "run_command"}

MONITORING_TOOLS == {"write_file", "read_file", "list_files"}

\* the tools bound to the stage's model; requirements and system_design bind none
Tools(stage) ==
  CASE stage = "coding" -> CODING_TOOLS
    [] stage = "testing" -> TESTING_TOOLS
    [] stage = "monitoring" -> MONITORING_TOOLS
    [] OTHER -> {}

\* tool_fn.invoke(call["args"]): the outcomes it can have
Invoke(name, args, files) ==
  CASE name = "write_file" -> write_file(args, files)
    [] name = "read_file" -> read_file(args, files)
    [] name = "run_tests" -> run_tests(args, files)

\* ------------------------------------------------------------------ stages
FAILURE_KEYWORDS == <<"FAILED", "ERROR", "FAILURE", "AssertionError", "Exception">>

\* kw.upper() for each keyword
UpperKeywords == [k \in DOMAIN FAILURE_KEYWORDS |-> Upper(FAILURE_KEYWORDS[k])]

_detect_passing(test_output) ==
  \A upper \in {Upper(test_output)} :
     ~\E k \in DOMAIN FAILURE_KEYWORDS : Contains(upper, UpperKeywords[k])

\* spinner is the stage's Spinner: "none" before it is created, then its _running
EmptyFrame ==
  [result_messages |-> <<>>, tool_calls |-> <<>>, idx |-> 0, tool_results |-> <<>>,
   code_files |-> <<>>, all_tool_outputs |-> <<>>, error |-> "none", spinner |-> "none"]

\* Spinner.start(): _running = True and the thread is started
SpinnerStart(f) == [f EXCEPT !.spinner = "running"]

\* Spinner.stop(): _running = False and the thread is joined
SpinnerStop(f) == [f EXCEPT !.spinner = "stopped"]

\* the coding stage starting from an empty dict of files
BeginFrameEmpty(stage, s) == EmptyFrame

\* the locals of a stage function when it is about to make its first backend
\* call: the spinner has been started
BeginFrame(stage, s) ==
  SpinnerStart([EmptyFrame EXCEPT
                  !.code_files = IF stage = "coding" THEN s.code_files ELSE <<>>])

\* `messages + result_messages`: what the stage sends to the backend after its
\* system prompt
Sent(s, f) == s.messages \o f.result_messages

\* the coding stage withdrawing the tests milestone when it returns new code
StageReturnCodingResetsTests(stage, f, response) ==
  CASE stage = "requirements" ->
         [messages |-> <<response>>, requirements |-> response.content,
          current_phase |-> "requirements"]
    [] stage = "system_design" ->
         [messages |-> <<response>>, system_design |-> response.content,
          current_phase |-> "system_design"]
    [] stage = "coding" ->
         [messages |-> f.result_messages, code_files |-> f.code_files,
          tests_passing |-> FALSE, current_phase |-> "coding"]
    [] stage = "testing" ->
         [messages |-> f.result_messages, test_results |-> response.content,
          tests_passing |->
            _detect_passing(response.content \o JoinWith("\n", f.all_tool_outputs)),
          current_phase |-> "testing"]
    [] stage = "monitoring" ->
         [messages |-> f.result_messages, monitoring_config |-> response.content,
          current_phase |-> "monitoring"]

\* the dict the stage function returns; response is the last backend response
StageReturn(stage, f, response) ==
  CASE stage = "requirements" ->
         [messages |-> <<response>>, requirements |-> response.content,
          current_phase |-> "requirements"]
    [] stage = "system_design" ->
         [messages |-> <<response>>, system_design |-> response.content,
          current_phase |-> "system_design"]
    [] stage = "coding" ->
         [messages |-> f.result_messages, code_files |-> f.code_files,
          current_phase |-> "coding"]
    [] stage = "testing" ->
         [messages |-> f.result_messages, test_results |-> response.content,
          tests_passing |->
            _detect_passing(response.content \o JoinWith("\n", f.all_tool_outputs)),
          current_phase |-> "testing"]
    [] stage = "monitoring" ->
         [messages |-> f.result_messages, monitoring_config |-> response.content,
          current_phase |-> "monitoring"]

\* `while response.tool_calls:`
LoopContinues(response) == response.tool_calls # <<>>

\* `tool_fn = tool_map.get(call["name"])` is not None
ToolKnown(stage, call) == call.name \in Tools(stage)

\* the result put in front of the earlier results of the round
AfterInvokePrepends(stage, f, call, result) ==
  [f EXCEPT
     !.tool_results = <<ToolMessage(result, call.id)>> \o @,
     !.all_tool_outputs = IF stage = "testing" THEN Append(@, result) ELSE @,
     !.code_files = IF stage = "coding" /\ call.name = "write_file"
                      THEN Put(@, call.args.filename, call.args.content) ELSE @]

\* the frame after the capability for request call has returned result
AfterInvoke(stage, f, call, result) ==
  [f EXCEPT
     !.tool_results = Append(@, ToolMessage(result, call.id)),
     !.all_tool_outputs = IF stage = "testing" THEN Append(@, result) ELSE @,
     !.code_files = IF stage = "coding" /\ call.name = "write_file"
                      THEN Put(@, call.args.filename, call.args.content) ELSE @]

\* the results of a round put in front of what the stage has gathered
NextCallResultsFirst(f) ==
  IF f.idx < Len(f.tool_calls)
    THEN [f EXCEPT !.idx = @ + 1]
    ELSE [f EXCEPT !.result_messages = f.tool_results \o @,
                   !.tool_calls = <<>>, !.tool_results = <<>>, !.idx = 0]

\* the end of one pass of `for call in response.tool_calls`: the next request,
\* or after the last one result_messages.extend(tool_results)
NextCall(f) ==
  IF f.idx < Len(f.tool_calls)
    THEN [f EXCEPT !.idx = @ + 1]
    ELSE [f EXCEPT !.result_messages = @ \o f.tool_results,
                   !.tool_calls = <<>>, !.tool_results = <<>>, !.idx = 0]

\* ------------------------------------------------------- invoke_with_retry
_RETRYABLE_PATTERNS ==
  <<"429", "rate_limit", "rate limit", "connection error", "connecterror", "ssl",
    "eof occurred", "unexpected_eof", "timeout", "timed out", "server_error",
    "500", "502", "503", "overloaded", "bad gateway", "service unavailable">>

\* the label _is_retryable returns for the pattern that matched
PatternLabel(pattern) ==
  IF Contains(pattern, "429") \/ Contains(pattern, "rate") THEN "rate limit"
  ELSE IF Contains(pattern, "ssl") \/ Contains(pattern, "eof") \/ Contains(pattern, "connect")
    THEN "connection error"
  ELSE IF Contains(pattern, "timeout") \/ Contains(pattern, "timed") THEN "timeout"
  ELSE "server error"

\* the label of a transient exception, "" (None) for any other
_is_retryable(exc) ==
  LET combined == Lower(exc.cls) \o " " \o Lower(exc.msg)
      hits == {i \in DOMAIN _RETRYABLE_PATTERNS : Contains(combined, _RETRYABLE_PATTERNS[i])}
  IN IF hits = {} THEN "" ELSE PatternLabel(_RETRYABLE_PATTERNS[Min(hits)])

\* one retry too few
ShouldRetryOneLess(label, attempt) == label # "" /\ attempt < MAX_RETRIES - 2

\* the last attempt retried as well
ShouldRetryAlways(label, attempt) == label # "" /\ attempt < MAX_RETRIES

\* the label not looked at
ShouldRetryAnyError(label, attempt) == attempt < MAX_RETRIES - 1

\* `if label and attempt < MAX_RETRIES - 1`
ShouldRetry(label, attempt) == label # "" /\ attempt < MAX_RETRIES - 1

\* a wait that grows by the base instead of doubling
WaitLinear(attempt) == INITIAL_BACKOFF * (attempt + 1)

\* `wait = backoff * (2 ** attempt)`
Wait(attempt) == INITIAL_BACKOFF * (2 ^ attempt)

\* a loop that is one pass short
LoopRunsOneLess(attempt) == attempt < MAX_RETRIES - 1

\* `for attempt in range(MAX_RETRIES)` has another pass
LoopRuns(attempt) == attempt < MAX_RETRIES

\* exceptions model.invoke can raise
BackendErrors ==
  {[cls |-> "RateLimitError", msg |-> "Error code: 429"],
   [cls |-> "APIConnectionError", msg |-> "Connection error."],
   [cls |-> "APITimeoutError", msg |-> "Request timed out."],
   [cls |-> "BadRequestError", msg |-> "Error code: 400"]}

\* _is_retryable of each of them
RetryLabel == [e \in BackendErrors |-> _is_retryable(e)]

NoError == [cls |-> "", msg |-> ""]

\* an entry of the trace: a backend call and how it ended, a warning, a sleep
Event(kind, attempt, wait, label, error) ==
  [kind |-> kind, attempt |-> attempt, wait |-> wait, label |-> label, error |-> error]

RtIdle == [pc |-> "idle", attempt |-> 0, trace |-> <<>>, outcome |-> [call |-> 0, error |-> NoError]]

RtStart == [RtIdle EXCEPT !.pc = "try"]

\* the backend calls of the trace, in order
Invokes(trace) == SelectSeq(trace, LAMBDA e : e.kind \in {"returned", "raised"})

\* ----------------------------------------------------- the backend's replies
\* the reply the supervisor's prompt asks for
JsonDecision(next) == "{\"next\": \"" \o next \o "\", \"reason\": \"because\"}"

\* texts the backend answers the supervisor's prompt with during a session
RoutingContents == {JsonDecision(r) : r \in Range(VALID_ROUTES)}

\* the kinds of text the backend can answer the supervisor's prompt with
SupervisorContents ==
  RoutingContents
  \cup {"no idea",
        JsonDecision("deploy"),
        JsonDecision("Coding"),
        "{\"reason\": \"because\"}",
        "{\"next\": 5}",
        "[\"testing\"]",
        "5",
        "go Coding after requirements",
        "FINISH or monitoring",
        "Sure:\n" \o JsonDecision("testing")}

\* replies whose content is a list of content blocks, written as str() prints them
NonStrContents == {"['testing']"}

\* the last reply the supervisor got: is_str is isinstance(content, str)
Reply(is_str, text) == [is_str |-> is_str, text |-> text]

NoReply == Reply(TRUE, "")

\* what the supervisor reads out of each reply
Parsed(contents) == [content \in contents |-> ParseDecision(content)]

ParsedRouting == Parsed(RoutingContents)

ParsedContents == Parsed(SupervisorContents)

\* content.lower() of each reply
LowerContents == [content \in SupervisorContents |-> Lower(content)]

\* final texts the backend can answer a stage's prompt with
StageContents(stage) ==
  CASE stage = "requirements" -> {"", "reqs"}
    [] stage = "system_design" -> {"", "design"}
    [] stage = "coding" -> {"done"}
    [] stage = "testing" -> {"all passed", "2 failed"}
    [] stage = "monitoring" -> {"", "config"}

\* capability requests the backend can make
CallSpecimens ==
  {[name |-> "write_file", args |-> [filename |-> "a.py", content |-> "v1"]],
   [name |-> "write_file", args |-> [filename |-> "../x", content |-> "v1"]],
   [name |-> "run_tests", args |-> [filename |-> ".", content |-> ""]]}

\* the tool_calls a response can carry when the backend may make n more requests
ToolCallLists(n) == UNION {[1..k -> CallSpecimens] : k \in 1..n}

\* the backend gives every request of a session its own id
WithIds(calls, base) ==
  [i \in DOMAIN calls |-> [id |-> base + i, name |-> calls[i].name, args |-> calls[i].args]]

FeedbackNotes == {"use sqlite"}

\* files of an existing project, as _load_project_files reads them
ExistingFiles == ("a.py" :> "v0") @@ ("b.py" :> "w0")

ExistingStore == (Resolved("a.py") :> "v0") @@ (Resolved("b.py") :> "w0")

\* ------------------------------------------------------------- checkpoints
\* thread_id = f"session-{slug}", the one config of a session
ThreadId == "session-app"

\* a checkpoint of the thread: the channel values and the node that runs next
\* ("" when the run has reached END)
Checkpoint(version, values, next) ==
  [thread_id |-> ThreadId, version |-> version, values |-> values, next |-> next]

\* the first checkpoint of a thread, whatever was saved after it
Oldest(cps) == cps[1]

\* the checkpoint a run or graph.get_state(config) starts from
Latest(cps) ==
  cps[CHOOSE i \in DOMAIN cps : \A j \in DOMAIN cps : cps[j].version <= cps[i].version]

\* the checkpointer's put at the end of a step, or in update_state
Save(cps, values, next) == Append(cps, Checkpoint(Latest(cps).version + 1, values, next))

\* the checkpoints of a thread whose stream has just been given initial_state
FirstSave(values) == <<Checkpoint(1, values, "supervisor")>>

\* a snapshot object that names no checkpoint
StaleSnapshot == [has |-> TRUE, version |-> 0, next |-> ""]

\* `last_state = None`: the stream produced no event
NoSnapshot == [has |-> FALSE, version |-> 0, next |-> ""]

\* graph.get_state(config) after the last event of a stream
Snapshot(cps) == [has |-> TRUE, version |-> Latest(cps).version, next |-> Latest(cps).next]

\* the loop condition with the test of state.next turned round
PausedWhenDone(snapshot) == snapshot.has /\ snapshot.next = ""

\* `while state and state.next`
Paused(snapshot) == snapshot.has /\ snapshot.next # ""

\* ------------------------------------------------------------------ actions
\* main(): a session on a new project starts at the entry point, the supervisor
\* (InitDecide and InitStage start the supervisor and the stages on an existing project too)
Init ==
  /\ st = InitialState(<<>>)
  /\ store = <<>>
  /\ ctl = "supervisor"
  /\ pending = ""
  /\ frame = EmptyFrame
  /\ saver = FirstSave(st)
  /\ state = NoSnapshot
  /\ log = [sup |-> 0, stages |-> 0, tools |-> 0, requests |-> 0, budget |-> MaxCalls,
           reply |-> NoReply]
  /\ rt = RtIdle

\* a raise that merges what the step had gathered so far
CrashKeepsPartial(cause) ==
  /\ ctl' = "crashed"
  /\ frame' = [EmptyFrame EXCEPT !.error = cause, !.spinner = frame.spinner]
  /\ st' = Merge(st, [messages |-> frame.result_messages, code_files |-> frame.code_files])
  /\ pending' = pending

\* the exception leaves the stream and main(); the checkpoint keeps the old state,
\* and a spinner that was not stopped keeps running
Crash(cause) ==
  /\ ctl' = "crashed"
  /\ frame' = [EmptyFrame EXCEPT !.error = cause, !.spinner = frame.spinner]
  /\ UNCHANGED <<st, pending>>

\* a suspension only before the first run of a node of the interrupt set
SuspendsBeforeFirstRun(route, s) == route \in InterruptBefore /\ ~has_code(s)

\* the run stops before node route: the node is in the interrupt set of the
\* compiled graph, whatever the state and however often it has run before
SuspendsBefore(route, s) == route \in InterruptBefore

\* supervisor(state) returns for one of the replies; the conditional edge and
\* the interrupt set pick the controller's move
Supervise(replies) ==
  /\ ctl = "supervisor"
  /\ \E content \in DOMAIN replies :
       LET s2 == Merge(st, SupervisorUpdate(st, Decide(st, replies[content])))
           route == route_after_supervisor(s2)
           runs == route # "FINISH" /\ ~SuspendsBefore(route, s2)
       IN /\ st' = s2
          /\ pending' = IF route = "FINISH" THEN "" ELSE route
          /\ ctl' = IF route = "FINISH" THEN "end"
                    ELSE IF SuspendsBefore(route, s2) THEN "suspended" ELSE "llm"
          /\ frame' = IF runs THEN BeginFrame(route, s2) ELSE EmptyFrame
          /\ log' = [log EXCEPT !.sup = @ + 1, !.stages = IF runs THEN @ + 1 ELSE @,
                                !.reply = Reply(TRUE, content)]
          /\ saver' = Save(saver, s2, IF route = "FINISH" THEN "" ELSE route)
          /\ state' = IF runs THEN state ELSE Snapshot(saver')
  /\ UNCHANGED <<store, rt>>

SupervisorReturns == Supervise(ParsedRouting)

\* invoke_with_retry raises in supervisor(state), or json.loads raises TypeError
\* for a reply whose content is not a str
SupervisorRaises ==
  /\ ctl = "supervisor"
  /\ \/ Crash("backend") /\ log' = [log EXCEPT !.sup = @ + 1]
     \/ \E content \in NonStrContents :
          /\ Crash("TypeError")
          /\ log' = [log EXCEPT !.sup = @ + 1, !.reply = Reply(FALSE, content)]
  /\ UNCHANGED <<store, rt, saver, state>>

\* a resume that re-enters the graph at its entry point
ResumeReruns ==
  /\ ctl = "suspended"
  /\ Paused(state)
  /\ ctl' = "supervisor"
  /\ pending' = ""
  /\ UNCHANGED <<st, frame, store, log, rt, saver, state>>

\* main(): [c], or [f] with an empty note
Resume ==
  /\ ctl = "suspended"
  /\ Paused(state)
  /\ ctl' = "llm"
  /\ st' = Latest(saver).values
  /\ pending' = Latest(saver).next
  /\ frame' = BeginFrame(pending', st')
  /\ log' = [log EXCEPT !.stages = @ + 1]
  /\ UNCHANGED <<store, rt, saver, state>>

\* main(): [f] with a note: update_state, then the run goes on
Feedback ==
  /\ ctl = "suspended"
  /\ Paused(state)
  /\ \E note \in FeedbackNotes :
       LET c == Latest(saver)
       IN /\ st' = Merge(c.values, [messages |-> <<HumanMessage(note)>>])
          /\ pending' = c.next
          /\ saver' = Save(saver, st', c.next)
  /\ ctl' = "llm"
  /\ frame' = BeginFrame(pending', st')
  /\ log' = [log EXCEPT !.stages = @ + 1]
  /\ UNCHANGED <<store, rt, state>>

\* main(): [q]
Quit ==
  /\ ctl = "suspended"
  /\ Paused(state)
  /\ ctl' = "stopped"
  /\ UNCHANGED <<st, pending, frame, store, log, rt, saver, state>>

\* _run_until_interrupt(compiled, config, None) on a thread whose latest checkpoint
\* names no next node: the stream yields no event and last_state stays None
ResumeIdle ==
  /\ ctl = "end"
  /\ Latest(saver).next = ""
  /\ state' = NoSnapshot
  /\ UNCHANGED <<st, ctl, pending, frame, store, log, rt, saver>>

\* the backend answers with one of contents and without tool calls: the stage
\* returns and its dict is merged
StageAnswers(contents) ==
  /\ ctl = "llm"
  /\ \E content \in contents :
       LET response == AIMessage(content, <<>>)
           f == [frame EXCEPT !.result_messages = Append(@, response)]
       IN /\ ~LoopContinues(response)
          /\ st' = Merge(st, StageReturn(pending, f, response))
  /\ ctl' = "supervisor"
  /\ pending' = ""
  /\ frame' = EmptyFrame
  /\ saver' = Save(saver, st', "supervisor")
  /\ UNCHANGED <<store, log, rt, state>>

StageReturns == StageAnswers(StageContents(pending))

\* the backend answers with tool calls: the stage enters a tool round
StageAsksTools ==
  /\ ctl = "llm"
  /\ Tools(pending) # {}
  /\ \E calls \in ToolCallLists(log.budget - log.requests) :
       LET response == AIMessage("", WithIds(calls, log.requests))
       IN /\ LoopContinues(response)
          /\ frame' = [SpinnerStop(frame) EXCEPT
                          !.result_messages = Append(@, response),
                          !.tool_calls = response.tool_calls,
                          !.tool_results = <<>>,
                          !.idx = 1]
          /\ log' = [log EXCEPT !.requests = @ + Len(calls)]
  /\ ctl' = "tools"
  /\ UNCHANGED <<st, pending, store, rt, saver, state>>

\* invoke_with_retry raises inside a stage
StageBackendRaises ==
  /\ ctl = "llm"
  /\ Crash("backend")
  /\ UNCHANGED <<store, log, rt, saver, state>>

\* `if tool_fn is None: continue`
ToolSkipped ==
  /\ ctl = "tools"
  /\ ~ToolKnown(pending, frame.tool_calls[frame.idx])
  /\ frame' = NextCall(frame)
  /\ ctl' = IF frame'.idx = 0 THEN "llm" ELSE "tools"
  /\ UNCHANGED <<st, pending, store, log, rt, saver, state>>

\* tool_fn.invoke returns
ToolInvoked ==
  /\ ctl = "tools"
  /\ LET call == frame.tool_calls[frame.idx] IN
       /\ ToolKnown(pending, call)
       /\ \E out \in Invoke(call.name, call.args, store) :
            /\ ~out.raised
            /\ store' = out.store
            /\ frame' = NextCall(AfterInvoke(pending, frame, call, out.result))
  /\ ctl' = IF frame'.idx = 0 THEN "llm" ELSE "tools"
  /\ log' = [log EXCEPT !.tools = @ + 1]
  /\ UNCHANGED <<st, pending, rt, saver, state>>

\* tool_fn.invoke raises: nothing in the stage catches it
ToolRaises ==
  /\ ctl = "tools"
  /\ LET call == frame.tool_calls[frame.idx] IN
       /\ ToolKnown(pending, call)
       /\ \E out \in Invoke(call.name, call.args, store) :
            /\ out.raised
            /\ store' = out.store
  /\ Crash("tool")
  /\ log' = [log EXCEPT !.tools = @ + 1]
  /\ UNCHANGED <<rt, saver, state>>

Next ==
  \/ SupervisorReturns
  \/ SupervisorRaises
  \/ Resume
  \/ Feedback
  \/ Quit
  \/ StageReturns
  \/ StageAsksTools
  \/ StageBackendRaises
  \/ ToolSkipped
  \/ ToolInvoked
  \/ ToolRaises

\* a session of main()
Spec == Init /\ [][Next]_vars
\* ------------------------------------------------- supervisor(state) alone
\* the SharedStates supervisor(state) is applied to
DecideStates ==
  {[InitialState(cf) EXCEPT !.requirements = r, !.system_design = d,
                            !.tests_passing = t, !.monitoring_config = m,
                            !.iteration_count = n] :
     cf \in {<<>>, ExistingFiles}, r \in {"", "reqs"}, d \in {"", "design"},
     t \in BOOLEAN, m \in {"", "config"}, n \in 0..(MAX_ITERATIONS + 1)}

InitDecide ==
  /\ st \in DecideStates
  /\ saver = FirstSave(st)
  /\ state = NoSnapshot
  /\ store = <<>>
  /\ ctl = "supervisor"
  /\ pending = ""
  /\ frame = EmptyFrame
  /\ log = [sup |-> 0, stages |-> 0, tools |-> 0, requests |-> 0, budget |-> MaxCalls,
           reply |-> NoReply]
  /\ rt = RtIdle

SupervisorDecides == Supervise(ParsedContents)

NextDecide ==
  \/ SupervisorDecides
  \/ SupervisorRaises

\* one call of supervisor(state), for every state and every kind of reply
SpecDecide == InitDecide /\ [][NextDecide]_vars

\* --------------------------------------- resuming a thread that has finished
NextController ==
  \/ SupervisorDecides
  \/ SupervisorRaises
  \/ ResumeIdle

\* one call of supervisor(state), then _run_until_interrupt with inputs None
\* as often as the caller likes
SpecController == InitDecide /\ [][NextController]_vars

\* ------------------------------- a session whose backend always says FINISH
InitFinish ==
  /\ \E existing \in BOOLEAN :
       /\ st = InitialState(IF existing THEN ExistingFiles ELSE <<>>)
       /\ store = IF existing THEN ExistingStore ELSE <<>>
  /\ ctl = "supervisor"
  /\ pending = ""
  /\ frame = EmptyFrame
  /\ saver = FirstSave(st)
  /\ state = NoSnapshot
  /\ log = [sup |-> 0, stages |-> 0, tools |-> 0, requests |-> 0, budget |-> MaxCalls,
           reply |-> NoReply]
  /\ rt = RtIdle

SupervisorFinishes == Supervise(Parsed({JsonDecision("FINISH")}))

NextFinish ==
  \/ SupervisorFinishes
  \/ Resume
  \/ Feedback
  \/ Quit
  \/ StageReturns
  \/ StageAsksTools
  \/ StageBackendRaises
  \/ ToolSkipped
  \/ ToolInvoked
  \/ ToolRaises

\* a session of main(), on a new or an existing project, in which every reply
\* to the supervisor's prompt is the terminal decision
SpecFinish == InitFinish /\ [][NextFinish]_vars

\* ------------------------------------ a session in which nothing goes wrong
\* every backend call returns, no stage asks for a capability, no error
\* propagates and the user never quits
NextLive ==
  \/ SupervisorReturns
  \/ StageReturns
  \/ Resume
  \/ Feedback

\* such a session goes on as long as it can: the graph runs its next node and
\* the user answers the prompt
SpecLive ==
  /\ Init
  /\ [][NextLive]_vars
  /\ WF_vars(SupervisorReturns)
  /\ WF_vars(StageReturns)
  /\ WF_vars(Resume \/ Feedback)

\* ------------------------------------------------------ one stage run alone
\* the state a stage starts from when the first decision of a session names it
StageEntry(stage, code_files) ==
  LET s0 == InitialState(code_files)
  IN Merge(s0, SupervisorUpdate(s0, Decide(s0, ParseDecision(JsonDecision(stage)))))

InitStage ==
  /\ \E stage \in Range(AGENT_NODES), existing \in BOOLEAN :
       /\ st = StageEntry(stage, IF existing THEN ExistingFiles ELSE <<>>)
       /\ store = IF existing THEN ExistingStore ELSE <<>>
       /\ pending = stage
       /\ frame = BeginFrame(stage, st)
       /\ saver = Save(FirstSave(InitialState(st.code_files)), st, stage)
  /\ state = NoSnapshot
  /\ ctl = "llm"
  /\ log = [sup |-> 1, stages |-> 1, tools |-> 0, requests |-> 0, budget |-> StageCalls,
           reply |-> NoReply]
  /\ rt = RtIdle

NextStage ==
  \/ StageReturns
  \/ StageAsksTools
  \/ StageBackendRaises
  \/ ToolSkipped
  \/ ToolInvoked
  \/ ToolRaises

\* one run of a stage function, from its first backend call to its return
SpecStage == InitStage /\ [][NextStage]_vars

\* ------------------------------------------------ invoke_with_retry alone
InitRetry ==
  /\ st = InitialState(<<>>)
  /\ saver = FirstSave(st)
  /\ state = NoSnapshot
  /\ store = <<>>
  /\ ctl = "supervisor"
  /\ pending = ""
  /\ frame = EmptyFrame
  /\ log = [sup |-> 0, stages |-> 0, tools |-> 0, requests |-> 0, budget |-> MaxCalls,
           reply |-> NoReply]
  /\ rt = RtStart

\* model.invoke returns: invoke_with_retry returns its response
BackendReturns ==
  /\ rt.pc = "try"
  /\ rt' = [rt EXCEPT
              !.pc = "returned",
              !.trace = Append(@, Event("returned", rt.attempt, 0, "", NoError)),
              !.outcome = [call |-> Len(Invokes(rt.trace)) + 1, error |-> NoError]]
  /\ UNCHANGED <<st, ctl, pending, frame, store, log, saver, state>>

\* model.invoke raises a transient error with attempts left: warn, sleep, go on;
\* a `for` that runs out returns None
BackendRaisesRetried ==
  /\ rt.pc = "try"
  /\ \E e \in BackendErrors :
       /\ ShouldRetry(RetryLabel[e], rt.attempt)
       /\ rt' = [rt EXCEPT
                   !.pc = IF LoopRuns(rt.attempt + 1) THEN "try" ELSE "returned",
                   !.attempt = @ + 1,
                   !.trace = @ \o <<Event("raised", rt.attempt, 0, "", e),
                                    Event("warn", rt.attempt + 1, Wait(rt.attempt),
                                          RetryLabel[e], NoError),
                                    Event("sleep", rt.attempt, Wait(rt.attempt), "", NoError)>>]
  /\ UNCHANGED <<st, ctl, pending, frame, store, log, saver, state>>

\* model.invoke raises and the error is not retried: `raise`
BackendRaisesFinal ==
  /\ rt.pc = "try"
  /\ \E e \in BackendErrors :
       /\ ~ShouldRetry(RetryLabel[e], rt.attempt)
       /\ rt' = [rt EXCEPT
                   !.pc = "raised",
                   !.trace = Append(@, Event("raised", rt.attempt, 0, "", e)),
                   !.outcome = [call |-> Len(Invokes(rt.trace)) + 1, error |-> e]]
  /\ UNCHANGED <<st, ctl, pending, frame, store, log, saver, state>>

NextRetry ==
  \/ BackendReturns
  \/ BackendRaisesRetried
  \/ BackendRaisesFinal

\* one call of invoke_with_retry against a backend that fails as it likes
SpecRetry == InitRetry /\ [][NextRetry]_vars

\* ------------------------------------------- the verdict of the testing stage
\* the tool outputs a testing run can have gathered before its last backend call
MaxOutputs == MaxCalls + 1

\* what run_tests and run_command can print
TestOutputs == {"1 passed", "FAILED t.py", "orders.py", "Traceback"}

\* final texts the backend can answer the testing prompt with
TestReplies == {"all passed", "2 failed", "nothing on stderr", "no exception", ""}

\* the frame of a stage after one round in which each request got one of outs
Gathered(f, outs) ==
  IF outs = <<>> THEN f
  ELSE LET calls == [i \in DOMAIN outs |-> [name |-> "run_command", args |-> [command |-> "ls"]]]
       IN [SpinnerStop(f) EXCEPT
             !.result_messages = <<AIMessage("", WithIds(calls, 0))>>
                                   \o [i \in DOMAIN outs |-> ToolMessage(outs[i], i)],
             !.all_tool_outputs = outs]

InitDetect ==
  /\ st = StageEntry("testing", ExistingFiles)
  /\ store = ExistingStore
  /\ pending = "testing"
  /\ \E n \in 0..MaxOutputs : \E outs \in [1..n -> TestOutputs] :
       /\ frame = Gathered(BeginFrame("testing", st), outs)
       /\ log = [sup |-> 1, stages |-> 1, tools |-> n, requests |-> n, budget |-> n,
                 reply |-> NoReply]
  /\ saver = Save(FirstSave(InitialState(st.code_files)), st, "testing")
  /\ state = NoSnapshot
  /\ ctl = "llm"
  /\ rt = RtIdle

TestingReturns == StageAnswers(TestReplies)

\* the last backend call of a testing run and the verdict that follows from it
SpecDetect == InitDetect /\ [][TestingReturns]_vars

\* --------------------------------------------------- one file capability call
\* filenames the backend can ask for
Filenames ==
  {"a.py", "b.py", "c.py", "src/a.py", "./a.py", "src/../a.py", "../output/a.py",
   "../x", "..", "/etc/passwd", "../output2/x", "../../work/output2/x"}

\* what is on disk when the call is made: nothing, the project's files, or the
\* project's files next to a directory output2 with a file of its own
DiskStates ==
  {<<>>, ExistingStore, ExistingStore @@ ("/work/output2/x" :> "secret")}

InitFiles ==
  /\ st = StageEntry("coding", <<>>)
  /\ store \in DiskStates
  /\ pending = "coding"
  /\ \E name \in {"write_file", "read_file"}, filename \in Filenames :
       LET calls == WithIds(<<[name |-> name,
                               args |-> [filename |-> filename, content |-> "v1"]]>>, 0)
       IN frame = [SpinnerStop(BeginFrame("coding", st)) EXCEPT
                     !.result_messages = <<AIMessage("", calls)>>,
                     !.tool_calls = calls,
                     !.idx = 1]
  /\ saver = Save(FirstSave(InitialState(st.code_files)), st, "coding")
  /\ state = NoSnapshot
  /\ ctl = "tools"
  /\ log = [sup |-> 1, stages |-> 1, tools |-> 0, requests |-> 1, budget |-> 1,
           reply |-> NoReply]
  /\ rt = RtIdle

NextFiles ==
  \/ ToolInvoked
  \/ ToolRaises

\* one write_file or read_file request of the coding stage carried out
SpecFiles == InitFiles /\ [][NextFiles]_vars
\* ================================================================== claims

\* C1: for every shared state and every backend reply, supervisor(state)
\* returns the terminal decision (route FINISH, current_phase "finished") only
\* if the five milestones hold in the state it was called with or that state's
\* iteration_count is at least MAX_ITERATIONS.
C1_TerminalOnlyWhenDoneOrAtCap ==
  [][(ctl = "supervisor" /\ ctl' # "crashed"
        /\ (st'.current_phase = "finished" \/ route_after_supervisor(st') = "FINISH"
              \/ ctl' = "end"))
       => \/ /\ st.requirements # "" /\ st.system_design # ""
             /\ DOMAIN st.code_files # {} /\ st.tests_passing
             /\ st.monitoring_config # ""
          \/ st.iteration_count >= MAX_ITERATIONS]_vars

\* a terminal decision taken below the cap on a complete checklist
C1_Witness ==
  /\ ctl = "end" /\ st.current_phase = "finished"
  /\ st.iteration_count <= MAX_ITERATIONS
  /\ st.requirements # "" /\ st.system_design # "" /\ DOMAIN st.code_files # {}
  /\ st.tests_passing /\ st.monitoring_config # ""

\* C2: every supervisor invocation that returns sets iteration_count to its
\* value on entry plus 1; no stage, no tool round and no resume patch changes
\* it, so the counter never decreases and never skips a value.
C2_CounterStepsByOne ==
  [][IF ctl = "supervisor" /\ ctl' # "crashed"
       THEN st'.iteration_count = st.iteration_count + 1
       ELSE st'.iteration_count = st.iteration_count]_vars

\* coding runs after a resume patch in a session whose counter was advanced twice
C2_Witness ==
  /\ st.iteration_count = 2 /\ ctl = "llm" /\ pending = "coding"
  /\ \E i \in DOMAIN st.messages :
       st.messages[i].type = "human" /\ st.messages[i].content \in FeedbackNotes

\* C3: invoke_with_retry, when the backend fails with a transient error on its
\* first N-1 calls and succeeds on the N-th (1 <= N <= MAX_RETRIES), makes
\* exactly N backend calls and returns the result of the N-th: it has not given
\* up after fewer than MAX_RETRIES transient failures, and once a call succeeds
\* that call is the last one and its response is what is returned.
C3_ReturnsNthCall ==
  LET calls == Invokes(rt.trace)
      transient(i) == calls[i].kind = "raised" /\ RetryLabel[calls[i].error] # ""
  IN /\ ((\A i \in DOMAIN calls : transient(i)) /\ Len(calls) < MAX_RETRIES)
          => rt.pc = "try"
     /\ \A n \in 1..MAX_RETRIES :
          (Len(calls) >= n /\ (\A i \in 1..(n - 1) : transient(i))
             /\ calls[n].kind = "returned")
            => /\ Len(calls) = n
               /\ rt.pc = "returned"
               /\ rt.outcome = [call |-> n, error |-> NoError]

\* six transient failures, then the seventh call succeeds and is returned
C3_Witness ==
  /\ rt.pc = "returned"
  /\ rt.outcome.call = MAX_RETRIES
  /\ Len(Invokes(rt.trace)) = MAX_RETRIES
  /\ \A i \in 1..(MAX_RETRIES - 1) : Invokes(rt.trace)[i].kind = "raised"

\* C4: invoke_with_retry, when the backend fails with a transient error on
\* every call, raises that error after exactly MAX_RETRIES backend calls and
\* never makes another call.
C4_RaisesAfterMaxRetries ==
  LET calls == Invokes(rt.trace)
  IN (\A i \in DOMAIN calls :
        calls[i].kind = "raised" /\ RetryLabel[calls[i].error] # "")
       => /\ Len(calls) <= MAX_RETRIES
          /\ rt.pc # "returned"
          /\ (rt.pc = "raised") <=> (Len(calls) = MAX_RETRIES)
          /\ rt.pc = "raised"
               => rt.outcome = [call |-> MAX_RETRIES, error |-> calls[MAX_RETRIES].error]

\* the wrapper has raised on the seventh transient failure in a row
C4_Witness ==
  /\ rt.pc = "raised"
  /\ Len(Invokes(rt.trace)) = MAX_RETRIES
  /\ \A i \in 1..MAX_RETRIES : RetryLabel[Invokes(rt.trace)[i].error] # ""

\* C5: with "coding" in the interrupt-before set, a supervisor decision that
\* names coding suspends the run with coding pending and not started; from the
\* decision until a resume no capability is invoked and the artifact store and
\* code_files stay as they were.
C5_SuspendsBeforeCoding ==
  [][/\ (ctl = "supervisor" /\ ctl' # "crashed" /\ st'.current_phase = "coding")
          => /\ ctl' = "suspended" /\ pending' = "coding" /\ frame' = EmptyFrame
             /\ store' = store /\ st'.code_files = st.code_files
             /\ log'.tools = log.tools /\ log'.stages = log.stages
     /\ ctl = "suspended"
          => /\ pending = "coding" /\ frame = EmptyFrame
             /\ store' = store /\ st'.code_files = st.code_files
             /\ log'.tools = log.tools
     /\ (ctl \notin {"llm", "tools"} /\ ctl' = "llm" /\ pending' = "coding")
          => ctl = "suspended"]_vars

\* the run is suspended before coding after an earlier stage has run
C5_Witness ==
  /\ ctl = "suspended" /\ pending = "coding" /\ st.current_phase = "coding"
  /\ log.stages >= 1

\* C6: in every tool round of coding, testing and monitoring the tool-result
\* messages appended are as many as the requests of the round's response, and
\* each result's id is the id of exactly one request of the round, also when a
\* request names a capability the stage does not have.
C6_OneResultPerRequest ==
  [][(ctl = "tools" /\ ctl' = "llm")
       => LET added == SubSeq(frame'.result_messages,
                              Len(frame.result_messages) + 1,
                              Len(frame'.result_messages))
          IN /\ Len(added) = Len(frame.tool_calls)
             /\ \A i \in DOMAIN added :
                  /\ added[i].type = "tool"
                  /\ Cardinality({k \in DOMAIN frame.tool_calls :
                                    frame.tool_calls[k].id = added[i].tool_call_id}) = 1]_vars

\* C7: the tool loop of a stage stops exactly when a response has no tool
\* requests: a round of requests is always followed by another backend call,
\* and the response without requests is followed by no call and no capability.
C7_LoopStopsOnlyWithoutRequests ==
  [][/\ ctl = "tools" => ctl' \in {"tools", "llm"}
     /\ (ctl = "llm" /\ ctl' = "tools")
          => LoopContinues(frame'.result_messages[Len(frame'.result_messages)])
     /\ (ctl = "llm" /\ ctl' = "supervisor")
          => log'.tools = log.tools /\ log'.requests = log.requests]_vars

\* C8: a capability that raises during a tool round does not make the stage
\* raise: the failure becomes the text of the tool result of its request and
\* the loop goes on.
C8_ToolFailureIsRecorded ==
  [][(ctl = "tools" /\ ToolKnown(pending, frame.tool_calls[frame.idx])
        /\ \E out \in Invoke(frame.tool_calls[frame.idx].name,
                             frame.tool_calls[frame.idx].args, store) : out.raised)
       => /\ ctl' \in {"tools", "llm"}
          /\ LET results == IF ctl' = "tools" THEN frame'.tool_results
                            ELSE frame'.result_messages
             IN /\ results # <<>>
                /\ results[Len(results)].type = "tool"
                /\ results[Len(results)].tool_call_id = frame.tool_calls[frame.idx].id]_vars

\* C9 as stated: with the cap at 3, the counter starting at 0 and the checklist
\* never complete, the supervisor invocation that leaves iteration_count at 3
\* returns the terminal decision.
C9_ThirdCallTerminal ==
  (st.iteration_count = MAX_ITERATIONS
     /\ ~(/\ st.requirements # "" /\ st.system_design # "" /\ DOMAIN st.code_files # {}
          /\ st.tests_passing /\ st.monitoring_config # ""))
    => st.current_phase = "finished"

\* C9 amended: with the cap at 3, the counter starting at 0 and the checklist
\* never complete, the first three supervisor invocations each route to a
\* stage and the fourth, entered with iteration_count 3 and leaving it at 4,
\* returns the terminal decision.
C9_FourthCallTerminal ==
  /\ st.iteration_count <= MAX_ITERATIONS + 1
  /\ st.iteration_count = MAX_ITERATIONS + 1
       => st.current_phase = "finished" /\ ctl = "end"
  /\ (st.iteration_count \in 1..MAX_ITERATIONS
        /\ ~(/\ st.requirements # "" /\ st.system_design # ""
             /\ DOMAIN st.code_files # {}
             /\ st.tests_passing /\ st.monitoring_config # ""))
       => st.current_phase \in Range(AGENT_NODES)

\* the fourth invocation has returned the terminal decision
C9_Witness ==
  /\ st.iteration_count = MAX_ITERATIONS + 1
  /\ st.current_phase = "finished" /\ ctl = "end"
  /\ log.sup = MAX_ITERATIONS + 1

\* C10: in a session that starts with iteration_count 0 the stage executions
\* never outnumber the iteration cap, whatever the backend replies.
C10_StagesWithinCap ==
  log.stages <= MAX_ITERATIONS

\* a session in which as many stages have run as the cap allows
C10_Witness ==
  log.stages = MAX_ITERATIONS /\ ctl = "end"

\* C11: whenever supervisor(state) returns the terminal decision with
\* iteration_count at or over the cap while a milestone is unmet, the
\* justification in its announcement message names every unmet milestone.
C11_ForcedFinishNamesUnmet ==
  [][(ctl = "supervisor" /\ ctl' = "end" /\ st.iteration_count >= MAX_ITERATIONS)
       => LET text == Lower(st'.messages[Len(st'.messages)].content)
          IN /\ st.requirements = "" => Contains(text, "requirement")
             /\ st.system_design = "" => Contains(text, "design")
             /\ DOMAIN st.code_files = {} => Contains(text, "cod")
             /\ ~st.tests_passing => Contains(text, "test")
             /\ st.monitoring_config = "" => Contains(text, "monitoring")]_vars

\* C12 as stated: with every milestone unmet and iteration_count 0 the first
\* supervisor invocation routes to requirements whatever the backend replies,
\* and its justification mentions "requirements".
C12_FirstRouteAlwaysRequirements ==
  [][(ctl = "supervisor" /\ ctl' # "crashed" /\ st.iteration_count = 0
        /\ st.requirements = "" /\ st.system_design = "" /\ DOMAIN st.code_files = {}
        /\ ~st.tests_passing /\ st.monitoring_config = "")
       => /\ st'.current_phase = "requirements"
          /\ Contains(st'.messages[Len(st'.messages)].content, "requirements")]_vars

\* C12 amended: with every milestone unmet and iteration_count 0 the first
\* supervisor invocation never returns terminal; it routes to the registered
\* stage the reply names when the reply names one, and to requirements, with a
\* justification mentioning "requirements", when the reply is terminal, names
\* no registered stage or cannot be read.
C12_FirstRouteRequirementsUnlessNamed ==
  [][(ctl = "supervisor" /\ ctl' # "crashed" /\ st.iteration_count = 0
        /\ st.requirements = "" /\ st.system_design = "" /\ DOMAIN st.code_files = {}
        /\ ~st.tests_passing /\ st.monitoring_config = "")
       => LET reply == log'.reply.text
              named == {a \in Range(AGENT_NODES) : Contains(Lower(reply), a)}
          IN /\ st'.current_phase \in Range(AGENT_NODES)
             /\ ctl' # "end"
             /\ st'.current_phase # "requirements" => st'.current_phase \in named
             /\ (named = {} \/ reply = JsonDecision("Coding"))
                  => /\ st'.current_phase = "requirements"
                     /\ Contains(st'.messages[Len(st'.messages)].content, "requirements")
             /\ \A a \in Range(AGENT_NODES) :
                  reply = JsonDecision(a) => st'.current_phase = a]_vars

\* a reply without any stage name was answered by the route to requirements
C12_Witness ==
  /\ log.sup = 1 /\ st.iteration_count = 1
  /\ log.reply.text = "no idea"
  /\ st.current_phase = "requirements" /\ ctl = "llm"
  /\ st.system_design = "" /\ DOMAIN st.code_files = {}

\* C13: a terminal decision of the backend taken below the cap while a
\* milestone is unmet is replaced by the route to the stage that owns the first
\* unmet milestone in the order requirements, system_design, coding, testing,
\* monitoring, with a justification that names all unmet milestones.
C13_OverrideRoutesToFirstUnmet ==
  [][(ctl = "supervisor" /\ ctl' # "crashed"
        /\ log'.reply.text = JsonDecision("FINISH")
        /\ st.iteration_count < MAX_ITERATIONS
        /\ ~(/\ st.requirements # "" /\ st.system_design # ""
             /\ DOMAIN st.code_files # {} /\ st.tests_passing
             /\ st.monitoring_config # ""))
       => LET text == st'.messages[Len(st'.messages)].content
              first == IF st.requirements = "" THEN "requirements"
                       ELSE IF st.system_design = "" THEN "system_design"
                       ELSE IF DOMAIN st.code_files = {} THEN "coding"
                       ELSE IF ~st.tests_passing THEN "testing"
                       ELSE "monitoring"
          IN /\ st'.current_phase = first
             /\ st.requirements = "" => Contains(text, "requirements")
             /\ st.system_design = "" => Contains(text, "system_design")
             /\ DOMAIN st.code_files = {} => Contains(text, "coding")
             /\ ~st.tests_passing => Contains(text, "testing")
             /\ st.monitoring_config = "" => Contains(text, "monitoring")]_vars

\* C14: supervisor(state) never raises because of what the reply contains:
\* when the backend call returned, whatever its content (not JSON, JSON that is
\* no object, an object without "next", content that is not a string), the
\* decision is a registered stage or the terminal one.
C14_ReplyNeverRaises ==
  [][ctl = "supervisor"
       => /\ ctl' = "crashed" => frame'.error = "backend"
          /\ ctl' # "crashed"
               => st'.current_phase \in Range(AGENT_NODES) \cup {"finished"}]_vars

\* C15 as stated: a reply that yields no registered stage name (a structured
\* decision whose "next" is not registered, or text in which neither parse nor
\* scan finds a name) makes the supervisor return the terminal decision.
C15_UnknownRouteIsTerminal ==
  [][(ctl = "supervisor" /\ ctl' # "crashed"
        /\ log'.reply.text \in {"no idea", "5", "{\"next\": 5}",
                                JsonDecision("deploy"), JsonDecision("Coding")})
       => st'.current_phase = "finished" /\ ctl' = "end"]_vars

\* C15 amended: a reply that yields no registered stage name is treated as a
\* terminal decision: the supervisor returns terminal when the five milestones
\* hold or iteration_count is at or over the cap, and otherwise routes to a
\* registered stage with a justification that names every unmet milestone.
C15_UnknownRouteIsTreatedAsFinish ==
  [][(ctl = "supervisor" /\ ctl' # "crashed"
        /\ log'.reply.text \in {"no idea", "5", "{\"next\": 5}",
                                JsonDecision("deploy"), JsonDecision("Coding")})
       => LET text == st'.messages[Len(st'.messages)].content
              complete == /\ st.requirements # "" /\ st.system_design # ""
                          /\ DOMAIN st.code_files # {} /\ st.tests_passing
                          /\ st.monitoring_config # ""
          IN IF complete \/ st.iteration_count >= MAX_ITERATIONS
               THEN st'.current_phase = "finished" /\ ctl' = "end"
               ELSE /\ st'.current_phase \in Range(AGENT_NODES)
                    /\ ctl' \in {"llm", "suspended"}
                    /\ st.requirements = "" => Contains(text, "requirements")
                    /\ st.system_design = "" => Contains(text, "system_design")
                    /\ DOMAIN st.code_files = {} => Contains(text, "coding")
                    /\ ~st.tests_passing => Contains(text, "testing")
                    /\ st.monitoring_config = "" => Contains(text, "monitoring")]_vars

\* an unregistered name ended a complete session below the cap, and another
\* one was overridden: both cases are reached (the first is this one)
C15_Witness ==
  /\ log.reply.text = JsonDecision("deploy")
  /\ st.current_phase = "finished" /\ ctl = "end"
  /\ st.iteration_count <= MAX_ITERATIONS
  /\ st.monitoring_config # "" /\ st.tests_passing

\* C16: invoke_with_retry re-raises an error that is not classified transient
\* at once: the failed call is the last one, nothing is slept or warned after
\* it, and when it is the first call the wrapper has made exactly one backend
\* call and has not slept at all.
C16_FatalErrorPropagates ==
  LET calls == Invokes(rt.trace)
      sleeps == SelectSeq(rt.trace, LAMBDA e : e.kind = "sleep")
  IN \A i \in DOMAIN calls :
       (calls[i].kind = "raised" /\ RetryLabel[calls[i].error] = "")
         => /\ i = Len(calls)
            /\ rt.trace[Len(rt.trace)] = calls[i]
            /\ Len(sleeps) = i - 1
            /\ rt.pc = "raised"
            /\ rt.outcome = [call |-> i, error |-> calls[i].error]

\* the first backend call failed with an unclassified error and was re-raised
C16_Witness ==
  /\ rt.pc = "raised"
  /\ Len(rt.trace) = 1
  /\ rt.trace[1].kind = "raised" /\ rt.trace[1].error.cls = "BadRequestError"

\* C17: within one invoke_with_retry call the wait before the k-th retry is
\* INITIAL_BACKOFF * 2^(k-1), that is 2, 4, 8, 16, 32, 64, so the waits grow
\* strictly, each announced by a warning with the attempt number and the wait;
\* when calls 1 and 2 fail with a transport error and call 3 succeeds the
\* wrapper has slept exactly twice, before calls 2 and 3, and returns call 3.
C17_BackoffDoubles ==
  LET sleeps == SelectSeq(rt.trace, LAMBDA e : e.kind = "sleep")
      warns == SelectSeq(rt.trace, LAMBDA e : e.kind = "warn")
      calls == Invokes(rt.trace)
      kinds == [i \in DOMAIN rt.trace |-> rt.trace[i].kind]
  IN /\ Len(sleeps) <= 6
     /\ \A k \in DOMAIN sleeps : sleeps[k].wait = <<2, 4, 8, 16, 32, 64>>[k]
     /\ \A k \in DOMAIN sleeps : k > 1 => sleeps[k].wait > sleeps[k - 1].wait
     /\ Len(warns) = Len(sleeps)
     /\ \A k \in DOMAIN warns : warns[k].attempt = k /\ warns[k].wait = sleeps[k].wait
     /\ (rt.pc = "returned" /\ Len(calls) = 3)
          => /\ kinds = <<"raised", "warn", "sleep", "raised", "warn", "sleep", "returned">>
             /\ rt.outcome = [call |-> 3, error |-> NoError]

\* transport errors on calls 1 and 2, then call 3 succeeded
C17_Witness ==
  /\ rt.pc = "returned" /\ rt.outcome.call = 3
  /\ Len(Invokes(rt.trace)) = 3
  /\ Invokes(rt.trace)[1].error.cls = "APIConnectionError"
  /\ Invokes(rt.trace)[2].error.cls = "APIConnectionError"
  /\ Len(SelectSeq(rt.trace, LAMBDA e : e.kind = "sleep")) = 2

\* C19: TERMINAL is absorbing: the terminal decision ends the run with nothing
\* pending, and once it has been returned no supervisor invocation and no
\* stage execution happens again and SharedState no longer changes.
C19_TerminalAbsorbing ==
  [][/\ st'.current_phase = "finished" => (ctl' = "end" /\ pending' = "")
     /\ st.current_phase = "finished"
          => /\ st' = st /\ store' = store
             /\ log'.sup = log.sup /\ log'.stages = log.stages /\ log'.tools = log.tools
             /\ ctl' = "end"]_vars

\* a session in which stages have run has ended with the terminal decision
C19_Witness ==
  /\ st.current_phase = "finished" /\ ctl = "end" /\ pending = ""
  /\ log.stages >= 1 /\ log.sup >= 2


\* C18 (as stated): on a session with no pending stage the controller holds, after
\* any number of resumes, the same unchanged snapshot with the completion flag.
C18_IdleResumeReturnsSnapshot ==
  ctl = "end" => (state.has /\ state.next = "" /\ state.version = Latest(saver).version)

\* C18 (amended): a resume on a session with no pending stage returns no snapshot
\* at all, every time; it runs neither the supervisor nor a stage, writes no
\* checkpoint, and leaves messages, artifacts and iteration_count unchanged.
C18_IdleResumeReturnsNone ==
  [][ctl = "end" =>
       /\ ~state'.has
       /\ ctl' = "end"
       /\ st' = st
       /\ store' = store
       /\ saver' = saver
       /\ log'.sup = log.sup /\ log'.stages = log.stages /\ log'.tools = log.tools]_vars

\* a finished session that has been resumed with nothing pending
C18_Witness ==
  /\ ctl = "end"
  /\ ~state.has
  /\ Latest(saver).next = ""
  /\ Len(saver) = 2
  /\ st.iteration_count > 0

\* C20: every supervisor completion and every stage completion writes a new
\* checkpoint of the same session whose version is above every earlier one, and
\* a resume continues from the checkpoint with the highest version.
C20_CheckpointsOrderedAndResumeFromHighest ==
  [][LET Writes(cps1, cps2, values) ==
           /\ Len(cps2) = Len(cps1) + 1
           /\ SubSeq(cps2, 1, Len(cps1)) = cps1
           /\ cps2[Len(cps2)].thread_id = cps1[1].thread_id
           /\ \A i \in DOMAIN cps1 : cps1[i].version < cps2[Len(cps2)].version
           /\ cps2[Len(cps2)].values = values
     IN /\ \A i, j \in DOMAIN saver' : i < j => saver'[i].version < saver'[j].version
        /\ (ctl = "supervisor" /\ ctl' # "crashed") => Writes(saver, saver', st')
        /\ (ctl \in {"llm", "tools"} /\ ctl' = "supervisor") => Writes(saver, saver', st')
        /\ (ctl = "suspended" /\ ctl' = "llm") =>
             \E i \in DOMAIN saver' :
               /\ \A j \in DOMAIN saver' : saver'[j].version <= saver'[i].version
               /\ st' = saver'[i].values
               /\ pending' = saver'[i].next]_vars

\* a resumed session whose stage and following supervisor call have completed
C20_Witness ==
  /\ Len(saver) >= 5
  /\ \A i, j \in DOMAIN saver : i < j => saver[i].version < saver[j].version
  /\ \E i \in DOMAIN saver : saver[i].next = "coding"
  /\ log.stages >= 2
  /\ ctl = "supervisor"

\* C21: a resume from the suspended state with pending stage S executes S next,
\* not the supervisor and not another stage; a patch supplied with it is appended
\* to the message history before S runs, so what S sends to the backend holds
\* the patch and the whole history from before the suspension.
C21_ResumeRunsPendingStage ==
  [][(ctl = "suspended" /\ ctl' # "stopped") =>
       /\ ctl' = "llm"
       /\ pending' = pending /\ pending' = state.next
       /\ log'.sup = log.sup /\ log'.stages = log.stages + 1
       /\ \E patch \in {<<>>} \cup {<<HumanMessage(note)>> : note \in FeedbackNotes} :
            /\ st'.messages = st.messages \o patch
            /\ patch # <<>> => saver'[Len(saver')].values.messages = st'.messages
       /\ frame'.result_messages = <<>>
       /\ Sent(st', frame') = st'.messages]_vars

\* coding is at its first backend call after a resume with a note, and the note
\* is the last message of the history it sends
C21_Witness ==
  /\ ctl = "llm" /\ pending = "coding" /\ frame.result_messages = <<>>
  /\ Len(Sent(st, frame)) >= 4
  /\ Sent(st, frame)[Len(Sent(st, frame))] \in {HumanMessage(note) : note \in FeedbackNotes}
  /\ Sent(st, frame)[1] = HumanMessage(st.original_prompt)

\* C23: the message history is append-only: over every step (a supervisor
\* invocation, a stage completion, a resume patch) the history before the step is
\* a prefix of the history after it; no message is removed, reordered or rewritten.
C23_HistoryAppendOnly ==
  [][/\ Len(st'.messages) >= Len(st.messages)
     /\ SubSeq(st'.messages, 1, Len(st.messages)) = st.messages
     /\ (ctl = "supervisor" /\ ctl' # "crashed") => Len(st'.messages) = Len(st.messages) + 1
     /\ (ctl = "llm" /\ ctl' = "supervisor") => Len(st'.messages) > Len(st.messages)
     /\ (ctl = "suspended" /\ saver' # saver) => Len(st'.messages) = Len(st.messages) + 1]_vars

\* a history that holds, after the prompt, an announcement, a resume patch, a
\* tool round of a stage and the announcement that followed it
C23_Witness ==
  /\ st.messages[1] = HumanMessage(st.original_prompt)
  /\ \E i, j, k, l \in DOMAIN st.messages :
       /\ i < j /\ j < k /\ k < l
       /\ st.messages[i].name = "supervisor"
       /\ st.messages[j].type = "human"
       /\ st.messages[k].type = "tool"
       /\ st.messages[l].name = "supervisor"

\* C24: the code_files mapping never loses a key: a file name present in
\* code_files, initially or after a write_file call of the coding stage, is
\* present in every later state, and a write replaces the content of that key only.
C24_CodeFilesKeepKeys ==
  [][/\ DOMAIN st.code_files \subseteq DOMAIN st'.code_files
     /\ (pending' = "coding" /\ ctl' \in {"llm", "tools"})
          => DOMAIN st'.code_files \subseteq DOMAIN frame'.code_files
     /\ (pending = "coding" /\ ctl' \in {"llm", "tools"})
          => DOMAIN frame.code_files \subseteq DOMAIN frame'.code_files
     /\ (pending = "coding" /\ ctl = "tools" /\ ctl' # "crashed")
          => LET call == frame.tool_calls[frame.idx]
             IN \A k \in DOMAIN frame.code_files :
                  IF ToolKnown(pending, call) /\ call.name = "write_file"
                     /\ k = call.args.filename
                    THEN frame'.code_files[k] = call.args.content
                    ELSE frame'.code_files[k] = frame.code_files[k]
     /\ (pending = "coding" /\ ctl' = "supervisor") => st'.code_files = frame.code_files
     /\ pending # "coding" => st'.code_files = st.code_files]_vars

\* coding has returned after it rewrote one of the two files of the project
C24_Witness ==
  /\ ctl = "supervisor" /\ st.current_phase = "coding"
  /\ DOMAIN st.code_files = {"a.py", "b.py"}
  /\ st.code_files["a.py"] = "v1"
  /\ st.code_files["b.py"] = "w0"

\* C25: the progress spinner a stage starts is stopped before the stage returns
\* or raises, also when the backend call it accompanies raises: no spinner is
\* running once a step has ended.
C25_SpinnerStoppedWhenStepEnds ==
  ctl \notin {"llm", "tools"} => frame.spinner # "running"

\* C26: with iteration_count >= MAX_ITERATIONS on entry the supervisor returns
\* terminal for every backend reply and every milestone status; the override to
\* an unmet milestone's stage never applies at or past the cap.
C26_TerminalAtCap ==
  [][(ctl = "supervisor" /\ st.iteration_count >= MAX_ITERATIONS) =>
       /\ ctl' \notin {"llm", "suspended"}
       /\ pending' = ""
       /\ log'.stages = log.stages
       /\ ctl' # "crashed" =>
            /\ ctl' = "end"
            /\ st'.current_phase = "finished"
            /\ ~Contains(st'.messages[Len(st'.messages)].content, "Cannot finish yet")]_vars

\* at the cap a reply naming coding was answered by the terminal decision
\* although no milestone was met
C26_Witness ==
  /\ ctl = "end" /\ st.current_phase = "finished"
  /\ log.reply.text = JsonDecision("coding")
  /\ st.iteration_count = MAX_ITERATIONS + 1
  /\ st.requirements = "" /\ st.system_design = "" /\ DOMAIN st.code_files = {}

\* C27: a supervisor invocation appends exactly one message, the announcement,
\* and sets current_phase to the chosen stage, or to 'finished' when the
\* decision is terminal; apart from messages, current_phase and iteration_count
\* it changes no field of SharedState.
C27_SupervisorFrame ==
  [][(ctl = "supervisor" /\ ctl' # "crashed") =>
       LET last == st'.messages[Len(st'.messages)]
           route == IF ctl' = "end" THEN "FINISH" ELSE pending'
       IN /\ Len(st'.messages) = Len(st.messages) + 1
          /\ SubSeq(st'.messages, 1, Len(st.messages)) = st.messages
          /\ last.type = "ai" /\ last.name = "supervisor" /\ last.tool_calls = <<>>
          /\ StartsWith(last.content, "[Supervisor] Routing to **" \o route \o "**: ")
          /\ ctl' = "end" => st'.current_phase = "finished"
          /\ ctl' # "end" => st'.current_phase = pending' /\ pending' \in Range(AGENT_NODES)
          /\ DOMAIN st' = DOMAIN st
          /\ \A k \in DOMAIN st \ {"messages", "current_phase", "iteration_count"} :
               st'[k] = st[k]
          /\ store' = store]_vars

\* monitoring was chosen for a project whose other milestones were met, and the
\* artifacts are the ones the invocation found
C27_Witness ==
  /\ log.sup = 1 /\ ctl = "llm" /\ st.current_phase = "monitoring"
  /\ st.code_files = ExistingFiles /\ st.tests_passing
  /\ st.requirements = "reqs" /\ st.system_design = "design"
  /\ Len(st.messages) = 2

\* C28: when the reply is not a structured decision the supervisor takes the
\* first known name that occurs in the text as a case-insensitive substring,
\* first in the registry order requirements, system_design, coding, testing,
\* monitoring, FINISH and not in the text: a reply that mentions both coding
\* and requirements yields requirements.
C28_ScanTakesFirstInRegistryOrder ==
  [][(ctl = "supervisor" /\ ctl' # "crashed" /\ st.iteration_count < MAX_ITERATIONS
        /\ log'.reply.text \in {"[\"testing\"]", "go Coding after requirements",
                                "FINISH or monitoring",
                                "Sure:\n" \o JsonDecision("testing")})
       => LET text == log'.reply.text
              low == LowerContents[text]
              first == IF Contains(low, "requirements") THEN "requirements"
                       ELSE IF Contains(low, "system_design") THEN "system_design"
                       ELSE IF Contains(low, "coding") THEN "coding"
                       ELSE IF Contains(low, "testing") THEN "testing"
                       ELSE IF Contains(low, "monitoring") THEN "monitoring"
                       ELSE "none"
          IN /\ st'.current_phase = first
             /\ st'.messages[Len(st'.messages)].content
                  = "[Supervisor] Routing to **" \o first \o "**: " \o text
             /\ text = "go Coding after requirements" => st'.current_phase = "requirements"
             /\ text = "FINISH or monitoring" => st'.current_phase = "monitoring"]_vars

\* a reply that mentions coding before requirements sent a project that has its
\* requirements to the requirements stage
C28_Witness ==
  /\ log.reply.text = "go Coding after requirements"
  /\ ctl = "llm" /\ st.current_phase = "requirements"
  /\ st.requirements # "" /\ st.system_design # ""

\* C29: when the supervisor overrides a terminal decision and the first unmet
\* milestone is 'tests passing' (requirements, design and code present) it
\* routes to coding, never to testing; hence while the backend keeps answering
\* FINISH and tests are not passing, the testing stage is never executed and
\* the run ends only at the iteration cap.
C29_UnmetTestsRouteToCoding ==
  [][/\ (ctl = "supervisor" /\ ctl' # "crashed"
          /\ st.requirements # "" /\ st.system_design # "" /\ DOMAIN st.code_files # {}
          /\ ~st.tests_passing /\ st.iteration_count < MAX_ITERATIONS)
         => /\ st'.current_phase = "coding"
            /\ pending' = "coding"
            /\ Contains(st'.messages[Len(st'.messages)].content, "testing (tests not passing)")
     /\ pending' # "testing"
     /\ st'.current_phase # "testing"
     /\ ~st'.tests_passing
     /\ ctl' = "end" => st.iteration_count >= MAX_ITERATIONS]_vars

\* a project with code went through requirements, design and coding and was
\* ended at the cap with its tests never run
C29_Witness ==
  /\ ctl = "end" /\ st.iteration_count = MAX_ITERATIONS + 1
  /\ st.requirements # "" /\ st.system_design # "" /\ DOMAIN st.code_files # {}
  /\ ~st.tests_passing /\ st.test_results = ""
  /\ \E i \in DOMAIN st.messages :
       Contains(st.messages[i].content, "Routing to **coding**")
         /\ Contains(st.messages[i].content, "testing (tests not passing)")

\* C30: within one tool round the capability functions are invoked one at a
\* time in the order of the requests of the backend response, each finishing
\* before the next starts, and the tool-result messages are appended in that
\* same order after the assistant message that requested them.
C30_ToolRoundInRequestOrder ==
  [][ctl = "tools" =>
       LET call == frame.tool_calls[frame.idx]
           ends == ctl' = "llm"
           before == frame.tool_results
           after == IF ends
                      THEN SubSeq(frame'.result_messages, Len(frame.result_messages) + 1,
                                  Len(frame'.result_messages))
                      ELSE frame'.tool_results
           asked == frame.result_messages[Len(frame.result_messages)]
       IN /\ asked.type = "ai" /\ asked.tool_calls = frame.tool_calls
          /\ \A i \in DOMAIN before : before[i].type = "tool"
          /\ \A i, j \in DOMAIN before :
               i < j => before[i].tool_call_id < before[j].tool_call_id
          /\ \A i \in DOMAIN before : before[i].tool_call_id < call.id
          /\ \A i, j \in DOMAIN frame.tool_calls :
               i < j => frame.tool_calls[i].id < frame.tool_calls[j].id
          /\ ctl' # "crashed" =>
               /\ log'.tools \in {log.tools, log.tools + 1}
               /\ log'.tools = log.tools => after = before /\ store' = store
               /\ log'.tools = log.tools + 1 =>
                    /\ Len(after) = Len(before) + 1
                    /\ SubSeq(after, 1, Len(before)) = before
                    /\ after[Len(after)].type = "tool"
                    /\ after[Len(after)].tool_call_id = call.id
                    /\ \E out \in Invoke(call.name, call.args, store) :
                         store' = out.store /\ after[Len(after)].content = out.result
               /\ ends <=> frame.idx = Len(frame.tool_calls)
               /\ ~ends => frame'.idx = frame.idx + 1 /\ frame'.tool_calls = frame.tool_calls
               /\ SubSeq(frame'.result_messages, 1, Len(frame.result_messages))
                    = frame.result_messages]_vars

\* a round of three requests has ended with its three results in request
\* order behind the response that asked for them
C30_Witness ==
  /\ ctl = "llm" /\ Len(frame.result_messages) = 4
  /\ Len(frame.result_messages[1].tool_calls) = 3
  /\ \A i \in 2..4 :
       /\ frame.result_messages[i].type = "tool"
       /\ frame.result_messages[i].tool_call_id = frame.result_messages[1].tool_calls[i - 1].id
  /\ frame.result_messages[2].content # frame.result_messages[3].content

C32_SleepBetweenCalls ==
  LET t == rt.trace
      calls == Invokes(t)
      sleeps == SelectSeq(t, LAMBDA e : e.kind = "sleep")
      CallsBefore(i) == Len(Invokes(SubSeq(t, 1, i)))
  IN /\ \A i \in DOMAIN t :
          t[i].kind = "sleep" =>
            /\ i > 2
            /\ t[i - 1].kind = "warn" /\ t[i - 2].kind = "raised"
            /\ t[i - 1].attempt = CallsBefore(i)
            /\ t[i - 1].wait = Wait(CallsBefore(i) - 1) /\ t[i].wait = t[i - 1].wait
            /\ IF i < Len(t) THEN t[i + 1].kind \in {"returned", "raised"}
                             ELSE rt.pc = "try"
     /\ \A i \in DOMAIN t : t[i].kind = "warn" => i < Len(t) /\ t[i + 1].kind = "sleep"
     /\ rt.pc = "try" => Len(sleeps) = Len(calls)
     /\ rt.pc \in {"returned", "raised"} =>
          /\ t[Len(t)].kind \in {"returned", "raised"}
          /\ Len(sleeps) = Len(calls) - 1

\* two transient errors were slept on and the third call failed for good
C32_Witness ==
  /\ rt.pc = "raised"
  /\ Len(Invokes(rt.trace)) = 3
  /\ RetryLabel[Invokes(rt.trace)[3].error] = ""
  /\ Len(SelectSeq(rt.trace, LAMBDA e : e.kind = "warn")) = 2

\* C33 as stated: at a pause before coding the choice [f] re-runs the design
\* stage with the user's notes: the stage that starts with the feedback message
\* as the last message of the history is system_design.
C33_FeedbackRerunsDesign ==
  (/\ ctl = "llm" /\ frame.result_messages = <<>>
   /\ st.messages[Len(st.messages)] \in {HumanMessage(note) : note \in FeedbackNotes})
    => pending = "system_design"

\* C34: when the supervisor or a stage raises (an error of the backend that is
\* not retried or has used up the retries, or an exception of a capability),
\* SharedState is exactly what it was when the step began, which is what the
\* latest checkpoint holds: no message, code_files entry or artifact of the
\* step is merged, the counter is as before and no checkpoint is written.
C34_RaiseLeavesStateUntouched ==
  ctl = "crashed" =>
    /\ st = Latest(saver).values
    /\ Latest(saver).next = IF pending = "" THEN "supervisor" ELSE pending

\* the coding stage raised after one of its write_file calls had written a file
C34_Witness ==
  /\ ctl = "crashed" /\ pending = "coding" /\ frame.error = "backend"
  /\ log.tools = 1 /\ DOMAIN store # {} /\ DOMAIN st.code_files = {}
  /\ \A i \in DOMAIN st.messages : st.messages[i].type # "tool"

\* C35: in a session started with iteration_count 0 the counter never exceeds
\* MAX_ITERATIONS + 1 and the supervisor is never invoked with a counter above
\* MAX_ITERATIONS, so a session has at most MAX_ITERATIONS + 1 supervisor
\* invocations, those that raise included.
C35_CounterBounded ==
  /\ st.iteration_count \in 0..(MAX_ITERATIONS + 1)
  /\ ctl = "supervisor" => (st.iteration_count <= MAX_ITERATIONS /\ log.sup = st.iteration_count)
  /\ log.sup \in {st.iteration_count, st.iteration_count + 1}
  /\ log.sup <= MAX_ITERATIONS + 1

\* the supervisor is about to be invoked with the counter at the cap
C35_Witness ==
  /\ ctl = "supervisor" /\ st.iteration_count = MAX_ITERATIONS
  /\ log.sup = MAX_ITERATIONS /\ log.stages = MAX_ITERATIONS

\* C36: with coding in the interrupt set every run of the coding stage, the
\* first and every later one, has its own suspension and resume: while coding
\* runs, main() holds the snapshot of a suspension before coding that was taken
\* at the supervisor invocation that routed to this run, and no stage has
\* completed since; so coding never runs twice on one resume.
C36_EveryCodingRunResumed ==
  (ctl \in {"llm", "tools"} /\ pending = "coding") =>
    /\ Paused(state) /\ state.next = "coding"
    /\ \E i \in DOMAIN saver :
         /\ saver[i].version = state.version
         /\ saver[i].next = "coding"
         /\ saver[i].values.iteration_count = st.iteration_count
         /\ \A j \in DOMAIN saver : j > i => saver[j].next = "coding"

\* coding runs for the second time, on files its first run has written
C36_Witness ==
  /\ ctl = "llm" /\ pending = "coding" /\ frame.result_messages = <<>>
  /\ has_code(st)
  /\ \E i \in DOMAIN saver :
       saver[i].next = "supervisor" /\ saver[i].values.current_phase = "coding"

\* C37: a stage that returns changes only messages, current_phase and its own
\* artifact: requirements only requirements, system_design only system_design,
\* coding only code_files, monitoring only monitoring_config, testing only
\* test_results and tests_passing; tests_passing is changed by the testing
\* stage alone and original_prompt by no step at all.
C37_StageFrame ==
  [][/\ st'.original_prompt = st.original_prompt
     /\ st'.tests_passing # st.tests_passing => (ctl = "llm" /\ pending = "testing")
     /\ (ctl = "llm" /\ ctl' = "supervisor") =>
          LET own == CASE pending = "requirements" -> {"requirements"}
                       [] pending = "system_design" -> {"system_design"}
                       [] pending = "coding" -> {"code_files"}
                       [] pending = "testing" -> {"test_results", "tests_passing"}
                       [] pending = "monitoring" -> {"monitoring_config"}
          IN \A k \in DOMAIN st :
               st'[k] # st[k] => k \in own \cup {"messages", "current_phase"}]_vars

\* the coding stage has returned after a testing run that passed, and the
\* milestone of the tests is as the testing run left it
C37_Witness ==
  /\ ctl = "supervisor" /\ st.current_phase = "coding"
  /\ st.tests_passing /\ st.test_results = "all passed"
  /\ st.original_prompt = "build it"

\* C38: the messages a tool-using stage gathers are an assistant message, then
\* the tool results of that message, then the next assistant message, and so
\* on; when the stage has returned, the last message it appended is an assistant
\* message without tool calls, and its content is the text stored as the
\* stage's artifact (test_results, monitoring_config).
C38_StageMessagesAlternate ==
  LET before == Len(saver[2].values.messages)
      own == IF ctl = "supervisor" THEN SubSeq(st.messages, before + 1, Len(st.messages))
                                   ELSE frame.result_messages
      Ids(m) == {m.tool_calls[c].id : c \in DOMAIN m.tool_calls}
  IN /\ \A i \in DOMAIN own : own[i].type \in {"ai", "tool"}
     /\ \A i \in DOMAIN own :
          own[i].type = "tool" =>
            \E a \in 1..(i - 1) :
              /\ own[a].type = "ai"
              /\ \A k \in (a + 1)..i : own[k].type = "tool"
              /\ own[i].tool_call_id \in Ids(own[a])
              /\ \A k \in (a + 1)..(i - 1) : own[k].tool_call_id < own[i].tool_call_id
     /\ \A i \in DOMAIN own :
          (own[i].type = "ai" /\ own[i].tool_calls = <<>>) => (i = Len(own) /\ ctl = "supervisor")
     /\ ctl = "supervisor" =>
          LET last == own[Len(own)]
          IN /\ last.type = "ai" /\ last.tool_calls = <<>>
             /\ st.current_phase = "testing" => st.test_results = last.content
             /\ st.current_phase = "monitoring" => st.monitoring_config = last.content

\* the testing stage has returned after two tool rounds
C38_Witness ==
  /\ ctl = "supervisor" /\ st.current_phase = "testing" /\ log.tools = 2
  /\ LET n == Len(st.messages)
     IN /\ n >= 7
        /\ st.messages[n].type = "ai" /\ st.messages[n].content = st.test_results
        /\ st.messages[n - 1].type = "tool" /\ st.messages[n - 2].type = "ai"
        /\ st.messages[n - 3].type = "tool" /\ st.messages[n - 4].type = "ai"

\* C39 as stated: the testing stage sets tests_passing to true exactly when
\* none of the failure keywords occurs, in any case of letters, in the final
\* response text or in any tool output of the run.
C39_PassingIffNoKeyword ==
  LET before == Len(saver[2].values.messages)
      HasKeyword(text) ==
        \E k \in DOMAIN FAILURE_KEYWORDS : Contains(Upper(text), Upper(FAILURE_KEYWORDS[k]))
  IN (ctl = "supervisor" /\ st.current_phase = "testing") =>
       (st.tests_passing <=>
          /\ ~HasKeyword(st.test_results)
          /\ \A i \in (before + 1)..Len(st.messages) :
               st.messages[i].type = "tool" => ~HasKeyword(st.messages[i].content))

\* C40 as stated: write_file and read_file never touch a path outside the
\* output directory: for every filename whose resolved path is not the output
\* directory or below it, a sibling directory whose name starts with the output
\* directory's name included, the call raises and writes or reads nothing.
C40_StaysInsideOutputDir ==
  [][LET call == frame.tool_calls[frame.idx]
         path == Resolved(call.args.filename)
     IN (ctl = "tools" /\ path # OutputDir /\ ~StartsWith(path, OutputDir \o "/"))
          => /\ ctl' = "crashed" /\ frame'.error = "tool"
             /\ store' = store]_vars
====
